---- MODULE Spec2Model ----
(***************************************************************************)
(* A model of the GitHub profile analyzer (src/src): the aggregation of   *)
(* starred and owned repositories (analysis.py), the activity fold and    *)
(* the request gateway (github_analyzer.py) and their helpers (utils.py). *)
(*                                                                         *)
(* Representation.                                                         *)
(*  - A Python str that the code takes apart (a topic, a description, a   *)
(*    "|"-joined topic string) is a sequence of one-character strings.    *)
(*    A str that is only compared (a language, an event type) is a TLA+   *)
(*    string. A repository name "owner/name", which the code splits at    *)
(*    "/", is the sequence of its components <<"owner", "name">>.         *)
(*  - A timestamp string "%Y-%m-%dT%H:%M:%SZ" is the tuple of its numeric *)
(*    fields <<Y, M, D>>, the time of day being 00:00:00 throughout.      *)
(*    Comparing two such strings is comparing the tuples field by field;  *)
(*    datetime.strptime turns a tuple into a day ordinal or raises        *)
(*    ValueError.                                                         *)
(*  - A dict read through safe_get is a record with a field "nulls": the  *)
(*    set of keys that are missing or None.                               *)
(*  - A Counter or an insertion-ordered dict of counts is a sequence of   *)
(*    [key, n] records in first-insertion order.                          *)
(***************************************************************************)
EXTENDS Integers, Sequences, FiniteSets, TLC

VARIABLES
    pc,               \* position of the run
    now,              \* datetime.now(), as <<Y, M, D>>
    starred_repos,    \* result of get_starred_repos
    user_repos,       \* result of get_user_repos
    activity,         \* activity summary handed to extract_comprehensive_data
    all_data,         \* result of extract_comprehensive_data
    trends,           \* result of identify_trends
    error,            \* exception that ended the run ("" when none)
    events,           \* result of get_recent_activity
    ev_i,             \* index of the next event of the fold
    activity_summary, \* accumulator of analyze_recent_activity
    ev_log,           \* events the fold has skipped on ValueError
    req_outcomes,     \* what the network answers to each attempt of one request
    req_attempts,     \* attempts of the current _make_request call so far
    req_result,       \* what _make_request handed to its caller ("" while running)
    remote,           \* what the hosting platform and the text service answer in this run
    page,             \* page number of the paginated fetch in progress
    user_info,        \* result of get_user_info
    profile_content,  \* result of generate_profile_content
    files             \* files update_readme has written, in the order written

vars == <<pc, now, starred_repos, user_repos, activity, all_data, trends, error,
          events, ev_i, activity_summary, ev_log,
          req_outcomes, req_attempts, req_result,
          remote, page, user_info, profile_content, files>>

analysis_vars == <<now, starred_repos, user_repos, activity, all_data, trends, error>>
activity_vars == <<events, ev_i, activity_summary, ev_log>>
request_vars == <<req_outcomes, req_attempts, req_result>>
pipeline_vars == <<remote, page, user_info, profile_content, files>>

(***************************************************************************)
(* Program constants (config.py).                                          *)
(***************************************************************************)
recent_days == 30
very_recent_days == 90
max_recent_commits == 10

(***************************************************************************)
(* Bounds of the model.                                                    *)
(***************************************************************************)
MaxStars == 3         \* starred repositories in an enumerated list
MaxOwn == 3           \* owned repositories in an enumerated list
MaxCommits == 60      \* recent commit count handed to identify_trends
NumLangs == 6         \* distinct languages in the language-count inputs
MaxTopicTotal == 10   \* stars carrying the one topic of the ratio inputs
MaxTopicsPerRepo == 11 \* topics of one repository in the top-10 input
MaxEvents == 3        \* activity events in an enumerated list

(***************************************************************************)
(* Sequences.                                                              *)
(***************************************************************************)
RECURSIVE Concat(_)
Concat(ss) ==
    IF ss = <<>> THEN <<>> ELSE Head(ss) \o Concat(Tail(ss))

Repeat(x, n) == [i \in 1..n |-> x]

Reverse(s) == [i \in 1..Len(s) |-> s[Len(s) + 1 - i]]

Filter(s, keep) ==
    LET RECURSIVE F(_)
        F(i) == IF i > Len(s) THEN <<>>
                ELSE IF i \in keep THEN <<s[i]>> \o F(i + 1) ELSE F(i + 1)
    IN F(1)

SeqsUpTo(n, S) == UNION {[1..k -> S] : k \in 0..n}

(***************************************************************************)
(* Timestamps: datetime.strptime(s, "%Y-%m-%dT%H:%M:%SZ") and the order of *)
(* the strings themselves.                                                 *)
(***************************************************************************)
IsLeap(y) == (y % 4 = 0 /\ y % 100 # 0) \/ y % 400 = 0

DaysInMonth(y, m) ==
    CASE m \in {1, 3, 5, 7, 8, 10, 12} -> 31
      [] m \in {4, 6, 9, 11} -> 30
      [] OTHER -> IF IsLeap(y) THEN 29 ELSE 28

RECURSIVE DaysBeforeMonth(_, _)
DaysBeforeMonth(y, m) ==
    IF m = 1 THEN 0 ELSE DaysBeforeMonth(y, m - 1) + DaysInMonth(y, m - 1)

DaysBeforeYear(y) ==
    (y - 1) * 365 + (y - 1) \div 4 - (y - 1) \div 100 + (y - 1) \div 400

\* strptime raises ValueError unless the string has the three fields of a
\* calendar date (a string such as "not-a-date" has none: <<>>).
strptime_raises(s) ==
    ~ ( /\ Len(s) = 3
        /\ s[1] \in 1..9999
        /\ s[2] \in 1..12
        /\ s[3] \in 1..DaysInMonth(s[1], s[2]) )

\* The datetime of a well-formed timestamp, as its proleptic day ordinal.
strptime(s) == DaysBeforeYear(s[1]) + DaysBeforeMonth(s[1], s[2]) + s[3]

\* s < t for two timestamp strings (str.__lt__ on zero-padded fields).
str_lt(s, t) ==
    \E i \in 1..Len(s) :
        /\ i <= Len(t)
        /\ s[i] < t[i]
        /\ \A j \in 1..(i - 1) : s[j] = t[j]

(***************************************************************************)
(* utils.py                                                                *)
(***************************************************************************)
safe_get(data, key, default) ==
    IF key \in data.nulls THEN default ELSE data[key]

RECURSIVE join(_, _)
join(sep, parts) ==
    IF Len(parts) = 0 THEN <<>>
    ELSE IF Len(parts) = 1 THEN parts[1]
    ELSE parts[1] \o <<sep>> \o join(sep, Tail(parts))

RECURSIVE split(_, _)
split(s, sep) ==
    IF \A i \in 1..Len(s) : s[i] # sep THEN <<s>>
    ELSE LET i == CHOOSE k \in 1..Len(s) :
                      s[k] = sep /\ \A j \in 1..(k - 1) : s[j] # sep
         IN <<SubSeq(s, 1, i - 1)>> \o split(SubSeq(s, i + 1, Len(s)), sep)

format_topics(topics) ==
    IF topics # <<>> THEN join("|", topics) ELSE <<>>

(***************************************************************************)
(* collections.Counter                                                     *)
(***************************************************************************)
RECURSIVE Distinct(_)
Distinct(s) ==
    IF s = <<>> THEN <<>>
    ELSE LET r == Distinct(SubSeq(s, 1, Len(s) - 1))
             x == s[Len(s)]
         IN IF \E i \in 1..Len(r) : r[i] = x THEN r ELSE Append(r, x)

Occurrences(s, x) == Cardinality({i \in 1..Len(s) : s[i] = x})

Counter(s) ==
    LET ks == Distinct(s)
    IN [i \in 1..Len(ks) |-> [key |-> ks[i], n |-> Occurrences(s, ks[i])]]

\* Counter.__getitem__: 0 for a key that was never counted.
CounterGet(c, k) ==
    IF \E i \in 1..Len(c) : c[i].key = k
    THEN c[CHOOSE i \in 1..Len(c) : c[i].key = k].n
    ELSE 0

\* sorted(items, key=count, reverse=True): a stable sort, so equal counts keep
\* their first-insertion order.
RECURSIVE SortedByCount(_)
SortedByCount(c) ==
    IF c = <<>> THEN <<>>
    ELSE LET r == SortedByCount(SubSeq(c, 1, Len(c) - 1))
             e == c[Len(c)]
             pos == Cardinality({i \in 1..Len(r) : r[i].n >= e.n})
         IN SubSeq(r, 1, pos) \o <<e>> \o SubSeq(r, pos + 1, Len(r))

MostCommonAll(c, n) == SortedByCount(c)

most_common(c, n) ==
    LET r == SortedByCount(c)
    IN SubSeq(r, 1, IF Len(r) < n THEN Len(r) ELSE n)

(***************************************************************************)
(* GitHubAnalyzer.extract_repo_insights (github_analyzer.py)               *)
(***************************************************************************)
tech_keywords ==
  << [category |-> <<"f","r","o","n","t","e","n","d">>,
      keywords |-> << <<"r","e","a","c","t">>,
                    <<"v","u","e">>,
                    <<"a","n","g","u","l","a","r">>,
                    <<"s","v","e","l","t","e">>,
                    <<"n","e","x","t",".","j","s">>,
                    <<"n","u","x","t">> >>],
     [category |-> <<"b","a","c","k","e","n","d">>,
      keywords |-> << <<"d","j","a","n","g","o">>,
                    <<"f","l","a","s","k">>,
                    <<"f","a","s","t","a","p","i">>,
                    <<"e","x","p","r","e","s","s">>,
                    <<"n","e","s","t",".","j","s">>,
                    <<"s","p","r","i","n","g">> >>],
     [category |-> <<"m","o","b","i","l","e">>,
      keywords |-> << <<"r","e","a","c","t"," ","n","a","t","i","v","e">>,
                    <<"f","l","u","t","t","e","r">>,
                    <<"s","w","i","f","t">>,
                    <<"k","o","t","l","i","n">>,
                    <<"i","o","n","i","c">> >>],
     [category |-> <<"d","e","v","o","p","s">>,
      keywords |-> << <<"d","o","c","k","e","r">>,
                    <<"k","u","b","e","r","n","e","t","e","s">>,
                    <<"k","8","s">>,
                    <<"t","e","r","r","a","f","o","r","m">>,
                    <<"a","n","s","i","b","l","e">>,
                    <<"c","i","/","c","d">> >>],
     [category |-> <<"d","a","t","a">>,
      keywords |-> << <<"p","a","n","d","a","s">>,
                    <<"n","u","m","p","y">>,
                    <<"t","e","n","s","o","r","f","l","o","w">>,
                    <<"p","y","t","o","r","c","h">>,
                    <<"s","p","a","r","k">>,
                    <<"a","i","r","f","l","o","w">> >>],
     [category |-> <<"c","l","o","u","d">>,
      keywords |-> << <<"a","w","s">>,
                    <<"a","z","u","r","e">>,
                    <<"g","c","p">>,
                    <<"c","l","o","u","d">>,
                    <<"s","e","r","v","e","r","l","e","s","s">>,
                    <<"l","a","m","b","d","a">> >>] >>

UpperCase ==
  {"A", "B", "C", "D", "E", "F", "G", "H", "I", "J", "K", "L", "M", "N", "O", "P", "Q", "R", "S", "T", "U", "V", "W", "X", "Y", "Z"}

lower_table ==
  [c \in UpperCase |-> CASE c = "A" -> "a"
                        [] c = "B" -> "b"
                        [] c = "C" -> "c"
                        [] c = "D" -> "d"
                        [] c = "E" -> "e"
                        [] c = "F" -> "f"
                        [] c = "G" -> "g"
                        [] c = "H" -> "h"
                        [] c = "I" -> "i"
                        [] c = "J" -> "j"
                        [] c = "K" -> "k"
                        [] c = "L" -> "l"
                        [] c = "M" -> "m"
                        [] c = "N" -> "n"
                        [] c = "O" -> "o"
                        [] c = "P" -> "p"
                        [] c = "Q" -> "q"
                        [] c = "R" -> "r"
                        [] c = "S" -> "s"
                        [] c = "T" -> "t"
                        [] c = "U" -> "u"
                        [] c = "V" -> "v"
                        [] c = "W" -> "w"
                        [] c = "X" -> "x"
                        [] c = "Y" -> "y"
                        [] c = "Z" -> "z"]

\* str.lower()
lower(s) ==
    [i \in 1..Len(s) |-> IF s[i] \in UpperCase THEN lower_table[s[i]] ELSE s[i]]

\* keyword in desc_lower
Contains(hay, needle) ==
    \E i \in 1..(Len(hay) - Len(needle) + 1) :
        SubSeq(hay, i, i + Len(needle) - 1) = needle

\* The categories whose keyword list has a keyword in the lowered
\* description, in the order of tech_keywords. (has_docs and is_maintained
\* are computed too and read nowhere.)
extract_repo_insights(repo) ==
    LET description == safe_get(repo, "description", <<>>)
        desc_lower == lower(description)
        hit == {k \in 1..Len(tech_keywords) :
                   \E w \in 1..Len(tech_keywords[k].keywords) :
                       Contains(desc_lower, tech_keywords[k].keywords[w])}
        matched == Filter(tech_keywords, hit)
    IN [categories |-> [i \in 1..Len(matched) |-> matched[i].category]]

(***************************************************************************)
(* GitHubProfileAnalyzer.extract_comprehensive_data (analysis.py)          *)
(*                                                                         *)
(* A starred item is [starred_at, repo]; a repository is a record with    *)
(* the fields the function reads (html_url, private, has_issues and size  *)
(* are copied to the output unchanged and are left out). The timestamps   *)
(* of starred and owned repositories are well-formed: strptime is not     *)
(* guarded there.                                                         *)
(***************************************************************************)
NinetyDaysForThirty(t) == strptime(t) - very_recent_days

\* A window that takes in the day exactly recent_days ago.
InclusiveThirtyDays(t) == strptime(t) - recent_days - 1

thirty_days_ago(t) == strptime(t) - recent_days

\* A window of 9 days where very_recent_days was meant.
NineDaysAgo(t) == strptime(t) - 9

ninety_days_ago(t) == strptime(t) - very_recent_days

starred_info(item, t) ==
    LET repo == item.repo
        starred_at == strptime(item.starred_at)
        topics == safe_get(repo, "topics", <<>>)
        language == safe_get(repo, "language", "")
        insights == extract_repo_insights(repo)
    IN [starred_at |-> item.starred_at,
        name |-> repo.full_name,
        description |-> safe_get(repo, "description", <<>>),
        language |-> language,
        topics |-> format_topics(topics),
        stars |-> safe_get(repo, "stargazers_count", 0),
        forks |-> safe_get(repo, "forks_count", 0),
        is_recent |-> starred_at > thirty_days_ago(t),
        is_very_recent |-> starred_at > ninety_days_ago(t),
        categories |-> format_topics(insights.categories)]

own_info(repo, t) ==
    LET topics == safe_get(repo, "topics", <<>>)
        language == safe_get(repo, "language", "")
        updated_at == strptime(repo.updated_at)
        insights == extract_repo_insights(repo)
    IN [name |-> repo.full_name,
        description |-> safe_get(repo, "description", <<>>),
        language |-> language,
        topics |-> format_topics(topics),
        stars |-> safe_get(repo, "stargazers_count", 0),
        forks |-> safe_get(repo, "forks_count", 0),
        updated_at |-> repo.updated_at,
        is_active |-> updated_at > thirty_days_ago(t),
        open_issues |-> safe_get(repo, "open_issues_count", 0),
        categories |-> format_topics(insights.categories)]

\* if safe_get(repo, "fork", False): continue
is_skipped_fork(repo) == safe_get(repo, "fork", FALSE)

ReversedTiesPosition(sorted, e) ==
    Cardinality({i \in 1..Len(sorted) : str_lt(e.updated_at, sorted[i].updated_at)})

\* Where list.sort(key=updated_at, reverse=True) puts e among the already
\* sorted elements that preceded it in the list: after every element whose
\* key is greater than or equal to e's (the sort is stable).
SortPosition(sorted, e) ==
    Cardinality({i \in 1..Len(sorted) : ~ str_lt(sorted[i].updated_at, e.updated_at)})

RECURSIVE sort_by_updated_at_desc(_)
sort_by_updated_at_desc(s) ==
    IF s = <<>> THEN <<>>
    ELSE LET r == sort_by_updated_at_desc(SubSeq(s, 1, Len(s) - 1))
             e == s[Len(s)]
             pos == SortPosition(r, e)
         IN SubSeq(r, 1, pos) \o <<e>> \o SubSeq(r, pos + 1, Len(r))

KeepForks(repos) == 1..Len(repos)

\* The indices of user_repos that the loop does not skip.
NonForks(repos) == {i \in 1..Len(repos) : ~ is_skipped_fork(repos[i])}

topics_of(repos) ==
    Concat([i \in 1..Len(repos) |-> safe_get(repos[i], "topics", <<>>)])

languages_of(repos) ==
    LET langs == [i \in 1..Len(repos) |-> safe_get(repos[i], "language", "")]
    IN Filter(langs, {i \in 1..Len(langs) : langs[i] # ""})

PooledCategories(starred, owned) ==
    Concat([i \in 1..Len(starred) |-> extract_repo_insights(starred[i]).categories])
    \o Concat([i \in 1..Len(owned) |-> extract_repo_insights(owned[i]).categories])

\* all_data["repo_categories"][category] += 1, in the starred loop only.
CountedCategories(starred, owned) ==
    Concat([i \in 1..Len(starred) |-> extract_repo_insights(starred[i]).categories])

\* topic_timeline[topic].append(starred_at), per starred repository.
topic_timeline(items) ==
    LET pairs == Concat([i \in 1..Len(items) |->
                     LET ts == safe_get(items[i].repo, "topics", <<>>)
                     IN [j \in 1..Len(ts) |->
                            [topic |-> ts[j], at |-> items[i].starred_at]]])
        ks == Distinct([i \in 1..Len(pairs) |-> pairs[i].topic])
    IN [k \in 1..Len(ks) |->
           [key |-> ks[k],
            dates |-> LET mine == Filter(pairs, {i \in 1..Len(pairs) : pairs[i].topic = ks[k]})
                      IN [i \in 1..Len(mine) |-> mine[i].at]]]

extract_comprehensive_data(starred, repos, act, t) ==
    LET starred_out == [i \in 1..Len(starred) |-> starred_info(starred[i], t)]
        starred_only == [i \in 1..Len(starred) |-> starred[i].repo]
        kept == Filter(repos, NonForks(repos))
        own_out == [i \in 1..Len(kept) |-> own_info(kept[i], t)]
    IN [starred |-> starred_out,
        own_repos |-> sort_by_updated_at_desc(own_out),
        activity |-> act,
        all_topics |-> topics_of(starred_only) \o topics_of(kept),
        all_languages |-> languages_of(starred_only) \o languages_of(kept),
        recent_stars |-> Filter(starred_out,
                                {i \in 1..Len(starred_out) : starred_out[i].is_recent}),
        topic_timeline |-> topic_timeline(starred),
        language_evolution |-> Counter(languages_of(starred_only)),
        repo_categories |-> Counter(CountedCategories(starred_only, kept))]

\* all_data as the function initialises it (lines 103-114).
empty_all_data(act) ==
    [starred |-> <<>>, own_repos |-> <<>>, activity |-> act,
     all_topics |-> <<>>, all_languages |-> <<>>, recent_stars |-> <<>>,
     topic_timeline |-> <<>>, language_evolution |-> <<>>,
     repo_categories |-> <<>>]

(***************************************************************************)
(* GitHubProfileAnalyzer.identify_trends (analysis.py)                     *)
(***************************************************************************)
\* recent_topics: the "|"-joined topic string of every recent star that has
\* one, split at "|" again.
recent_topics(data) ==
    Concat([i \in 1..Len(data.recent_stars) |->
               IF data.recent_stars[i].topics # <<>>
               THEN split(data.recent_stars[i].topics, "|")
               ELSE <<>>])

recent_topic_counts(data) == Counter(recent_topics(data))

all_topic_counts(data) == Counter(data.all_topics)

\* The (topic, recent_count, total_count) triples the loop of lines 55-64
\* goes through, in its order.
ranked_topics(data) ==
    LET top == most_common(recent_topic_counts(data), 10)
    IN [i \in 1..Len(top) |->
           [topic |-> top[i].key,
            recent_count |-> top[i].n,
            total_count |-> CounterGet(all_topic_counts(data), top[i].key)]]

\* recent_count / total_count raises ZeroDivisionError.
identify_trends_raises(data) ==
    \E i \in 1..Len(ranked_topics(data)) : ranked_topics(data)[i].total_count = 0

\* recent_count / total_count > 0.3, for a non-zero total_count. (Float
\* division and the float 0.3 decide as the exact fractions do for every
\* count below 10^15.)
ratio_exceeds(recent_count, total_count) ==
    10 * recent_count > 3 * total_count

emerging_topics(data) ==
    LET ranked == ranked_topics(data)
    IN Filter(ranked, {i \in 1..Len(ranked) :
                  ratio_exceeds(ranked[i].recent_count, ranked[i].total_count)})

recent_languages(data) ==
    LET langs == [i \in 1..Len(data.recent_stars) |-> data.recent_stars[i].language]
    IN Filter(langs, {i \in 1..Len(langs) : langs[i] # ""})

growing_languages(data) ==
    LET top == most_common(Counter(recent_languages(data)), 5)
        kept == Filter(top, {i \in 1..Len(top) : top[i].n >= 2})
    IN [i \in 1..Len(kept) |-> kept[i].key]

PatternInclusive(commits) ==
    IF commits >= 50 THEN "highly_active"
    ELSE IF commits >= 20 THEN "active"
    ELSE IF commits >= 5 THEN "moderate"
    ELSE "light"

activity_pattern(commits) ==
    IF commits > 50 THEN "highly_active"
    ELSE IF commits > 20 THEN "active"
    ELSE IF commits > 5 THEN "moderate"
    ELSE "light"

expertise_areas(data) ==
    LET cats == data.repo_categories
        kept == Filter(cats, {i \in 1..Len(cats) : cats[i].n >= 3})
    IN [i \in 1..Len(kept) |-> kept[i].key]

\* trends as the function initialises it (lines 38-44).
empty_trends ==
    [emerging_topics |-> <<>>, growing_languages |-> <<>>,
     focus_shift |-> "None", activity_pattern |-> "None",
     expertise_areas |-> <<>>]

\* The dictionary the function returns when it returns.
identify_trends(data) ==
    [emerging_topics |-> emerging_topics(data),
     growing_languages |-> growing_languages(data),
     focus_shift |-> "None",
     activity_pattern |-> activity_pattern(data.activity.commits),
     expertise_areas |-> expertise_areas(data)]

(***************************************************************************)
(* GitHubAnalyzer.analyze_recent_activity (github_analyzer.py)             *)
(*                                                                         *)
(* An event is [type, created_at, repo, payload, nulls]: repo is           *)
(* event["repo"]["name"], nulls holds "payload" when the payload is        *)
(* missing or None. A payload is [commits, action, absent, nones]: the    *)
(* keys it lacks and the keys whose value is None (dict.get tells them    *)
(* apart). A commit is [message, nulls].                                   *)
(***************************************************************************)
empty_payload ==
    [commits |-> <<>>, action |-> "", absent |-> {"commits", "action"}, nones |-> {}]

empty_summary ==
    [commits |-> 0, prs_created |-> 0, prs_reviewed |-> 0,
     issues_opened |-> 0, issues_commented |-> 0, repos_worked_on |-> {},
     repos_contributed |-> {}, recent_commits_detail |-> <<>>,
     collaboration_repos |-> {}]

\* {repo["full_name"] for repo in user_repos} (analysis.py, run_analysis)
own_repos_names(repos) == {repos[i].full_name : i \in 1..Len(repos)}

\* name.split("/")[-1]
name_only(full_name) == full_name[Len(full_name)]

own_repo_names_only(own) == {name_only(n) : n \in own}

\* A check that compares full names, owner included.
ComparesFullNames(repo_full_name, own) == repo_full_name \in own

is_fork_of_own_repo(repo_full_name, own) ==
    name_only(repo_full_name) \in own_repo_names_only(own)

\* safe_get(event, "payload", {}).get("commits", []) is None: len() of it
\* raises TypeError.
commits_is_none(event) ==
    /\ event.type = "PushEvent"
    /\ "commits" \in safe_get(event, "payload", empty_payload).nones

\* The commit list cut to max_recent_commits before it is counted.
CappedCommits(event) ==
    LET payload == safe_get(event, "payload", empty_payload)
        commits == IF "commits" \in payload.absent THEN <<>> ELSE payload.commits
    IN SubSeq(commits, 1,
              IF Len(commits) < max_recent_commits THEN Len(commits) ELSE max_recent_commits)

payload_commits(event) ==
    LET payload == safe_get(event, "payload", empty_payload)
    IN IF "commits" \in payload.absent THEN <<>> ELSE payload.commits

\* A test that takes any action of an issue event for "opened".
AnyActionIsOpened(event) ==
    LET payload == safe_get(event, "payload", empty_payload)
    IN "action" \notin payload.absent /\ "action" \notin payload.nones

\* safe_get(event, "payload", {}).get("action") == "opened"
action_is_opened(event) ==
    LET payload == safe_get(event, "payload", empty_payload)
    IN /\ "action" \notin payload.absent
       /\ "action" \notin payload.nones
       /\ payload.action = "opened"

commit_details(event) ==
    LET commits == payload_commits(event)
        first == SubSeq(commits, 1,
                        IF Len(commits) < max_recent_commits
                        THEN Len(commits) ELSE max_recent_commits)
    IN [i \in 1..Len(first) |->
           [repo |-> event.repo,
            message |-> safe_get(first[i], "message", ""),
            date |-> event.created_at]]

\* A review that is also counted as a created pull request.
ReviewCountsAsCreated(summary) ==
    [summary EXCEPT !.prs_reviewed = @ + 1, !.prs_created = @ + 1]

\* The branch of a PullRequestReviewEvent (lines 186-187).
review_event(summary) == [summary EXCEPT !.prs_reviewed = @ + 1]

\* The body of the loop for an event that is in the window (lines 158-194).
apply_event(summary, event, own) ==
    LET is_own_repo == event.repo \in own
        is_fork_of_own == is_fork_of_own_repo(event.repo, own)
    IN CASE event.type = "PushEvent" ->
              [summary EXCEPT
                  !.commits = @ + Len(payload_commits(event)),
                  !.repos_worked_on = @ \cup {event.repo},
                  !.recent_commits_detail =
                      IF is_own_repo THEN @ \o commit_details(event) ELSE @,
                  !.repos_contributed =
                      IF ~ is_own_repo /\ ~ is_fork_of_own
                      THEN @ \cup {event.repo} ELSE @]
         [] event.type = "PullRequestEvent" ->
              [summary EXCEPT
                  !.prs_created = @ + 1,
                  !.collaboration_repos =
                      IF ~ is_own_repo /\ ~ is_fork_of_own
                      THEN @ \cup {event.repo} ELSE @]
         [] event.type = "PullRequestReviewEvent" -> review_event(summary)
         [] event.type = "IssuesEvent" ->
              IF action_is_opened(event)
              THEN [summary EXCEPT !.issues_opened = @ + 1]
              ELSE summary
         [] event.type = "IssueCommentEvent" ->
              [summary EXCEPT !.issues_commented = @ + 1]
         [] OTHER -> summary

MalformedNotSkipped(event, t) ==
    /\ ~ strptime_raises(event.created_at)
    /\ strptime(event.created_at) < thirty_days_ago(t)

\* A window that leaves out the event created exactly recent_days ago.
SkipsWindowStart(event, t) ==
    \/ strptime_raises(event.created_at)
    \/ strptime(event.created_at) <= thirty_days_ago(t)

\* The two `continue`s of the loop: strptime raised ValueError, or the event
\* is older than now - recent_days.
event_skipped(event, t) ==
    \/ strptime_raises(event.created_at)
    \/ strptime(event.created_at) < thirty_days_ago(t)

\* One iteration of `for event in events`, when it raises nothing.
fold_event(summary, event, own, t) ==
    IF event_skipped(event, t) THEN summary ELSE apply_event(summary, event, own)

\* The iteration raises: the only unguarded failure modelled is len(None).
fold_event_raises(event, t) ==
    ~ event_skipped(event, t) /\ commits_is_none(event)

(***************************************************************************)
(* Inputs: what the gateway can hand to the aggregation.                   *)
(***************************************************************************)
T_a == <<"a">>
T_b == <<"b">>
T_a_bar_b == <<"a", "|", "b">>
T_k8s == <<"k", "8", "s">>

D_aws == <<"A","W","S"," ","t","o","o","l","s">>
D_k8s == <<"k","8","s"," ","o","n"," ","a","w","s">>
D_docker == <<"D","o","c","k","e","r">>
D_rn == <<"a"," ","R","e","a","c","t"," ","N","a","t","i","v","e"," ","a","p","p">>
D_plain == <<"n","o","t","e","s">>

Now0 == <<2024, 3, 5>>
Now1 == <<2024, 3, 31>>
At_0110 == <<2024, 1, 10>>   \* 55 days before Now0
At_0204 == <<2024, 2, 4>>    \* exactly 30 days before Now0
At_0205 == <<2024, 2, 5>>
At_0301 == <<2024, 3, 1>>    \* exactly 30 days before Now1
At_1201 == <<2023, 12, 1>>   \* more than 90 days before Now0

AllDates == {At_1201, At_0110, At_0204, At_0205, At_0301}

LanguageNames == <<"Go", "Python", "Rust", "C", "Lua", "Zig", "Nim", "Elm">>

\* A repository record none of whose optional fields is set.
BareRepo(name, updated) ==
    [full_name |-> name, description |-> <<>>, language |-> "",
     topics |-> <<>>, stargazers_count |-> 0, forks_count |-> 0,
     open_issues_count |-> 0, fork |-> FALSE, updated_at |-> updated,
     nulls |-> {"description", "language", "topics", "stargazers_count",
                "forks_count", "open_issues_count", "fork"}]

WithField(repo, key, value) ==
    [repo EXCEPT ![key] = value, !.nulls = repo.nulls \ {key}]

Star(at, repo) == [starred_at |-> at, repo |-> repo]

TopicRepo(name, ts) == WithField(BareRepo(name, At_0110), "topics", ts)

LangRepo(name, lang) == WithField(BareRepo(name, At_0110), "language", lang)

DescRepo(name, d) == WithField(BareRepo(name, At_0110), "description", d)

ActivityOf(commits, prs) ==
    [commits |-> commits, prs_created |-> prs, prs_reviewed |-> 0,
     issues_opened |-> 0, issues_commented |-> 0, repos_worked_on |-> {},
     repos_contributed |-> {}, recent_commits_detail |-> <<>>,
     collaboration_repos |-> {}]

Input(starred, repos, act, t) ==
    [starred |-> starred, repos |-> repos, act |-> act, now |-> t]

\* Topic lists, with a topic that holds the separator of format_topics.
TopicLists == {<<T_a>>, <<T_a_bar_b>>, <<T_a, T_b>>}

TopicStars ==
    {Star(at, TopicRepo(<<"o", "s">>, ts)) : at \in {At_0110, At_0301}, ts \in TopicLists}
    \cup {Star(at, BareRepo(<<"o", "s">>, At_0110)) : at \in {At_0110, At_0301}}

TopicOwnLists ==
    {<<>>,
     <<TopicRepo(<<"a", "x">>, <<T_a, T_b>>)>>,
     <<WithField(TopicRepo(<<"a", "f">>, <<T_a>>), "fork", TRUE)>>}

FamTopics ==
    {Input(s, r, ActivityOf(0, 0), Now0) :
        s \in SeqsUpTo(MaxStars, TopicStars), r \in TopicOwnLists}

\* k recent and n - k old stars of one topic.
FamRatio ==
    {Input(Repeat(Star(At_0301, TopicRepo(<<"o", "s">>, <<T_k8s>>)), nk[2])
           \o Repeat(Star(At_0110, TopicRepo(<<"o", "s">>, <<T_k8s>>)), nk[1] - nk[2]),
           <<>>, ActivityOf(0, 0), Now0) :
        nk \in {x \in (0..MaxTopicTotal) \X (0..MaxTopicTotal) : x[2] <= x[1]}}

\* One recent star with m distinct topics; optionally a second recent star
\* that repeats the last two of them.
NthTopic(i) == Repeat("x", i)

FamTopTen ==
    {Input(<<Star(At_0301, TopicRepo(<<"o", "s">>, [i \in 1..mb[1] |-> NthTopic(i)]))>>
           \o (IF mb[2] /\ mb[1] >= 2
               THEN <<Star(At_0301, TopicRepo(<<"o", "t">>,
                          <<NthTopic(mb[1]), NthTopic(mb[1] - 1)>>))>>
               ELSE <<>>),
           <<>>, ActivityOf(0, 0), Now0) :
        mb \in (0..MaxTopicsPerRepo) \X BOOLEAN}

\* cv[i] recent stars of language i for the first n languages, in language
\* order or reversed, with or without two old stars of the first language,
\* a recent star of the empty language and one of no language.
LangCounts == 1..3

LangStars(cv) ==
    Concat([i \in 1..Len(cv) |->
               Repeat(Star(At_0301, LangRepo(<<"o", "s">>, LanguageNames[i])), cv[i])])

FamLang ==
    {Input(IF f
           THEN Reverse(LangStars(cv))
                \o <<Star(At_0110, LangRepo(<<"o", "s">>, LanguageNames[1])),
                     Star(At_0110, LangRepo(<<"o", "s">>, LanguageNames[1])),
                     Star(At_0301, LangRepo(<<"o", "s">>, "")),
                     Star(At_0301, BareRepo(<<"o", "s">>, At_0110))>>
           ELSE LangStars(cv),
           <<>>, ActivityOf(0, 0), Now0) :
        cv \in SeqsUpTo(NumLangs, LangCounts), f \in BOOLEAN}

FamCommits ==
    {Input(s, <<>>, ActivityOf(c, p), Now0) :
        c \in 0..MaxCommits, p \in {0, 7},
        s \in {<<>>, <<Star(At_0301, LangRepo(<<"o", "s">>, "Go")),
                       Star(At_0301, DescRepo(<<"o", "t">>, D_k8s))>>}}

Descriptions == {D_aws, D_k8s, D_docker, D_rn, D_plain, <<>>}

DescStars ==
    {Star(At_0301, DescRepo(<<"o", "s">>, d)) : d \in Descriptions}
    \cup {Star(At_0301, BareRepo(<<"o", "s">>, At_0110))}

DescOwnLists ==
    {<<>>,
     <<DescRepo(<<"a", "x">>, D_docker), DescRepo(<<"a", "y">>, D_k8s)>>,
     <<DescRepo(<<"a", "x">>, D_docker), DescRepo(<<"a", "y">>, D_k8s), DescRepo(<<"a", "z">>, D_aws)>>}

FamDesc ==
    {Input(s, r, ActivityOf(0, 0), Now0) :
        s \in SeqsUpTo(MaxStars, DescStars), r \in DescOwnLists}

\* Owned repositories: two names, two dates, fork true or false, and one
\* whose fork field is missing; each with a topic and a language of its own.
OwnRepo(n, at) ==
    WithField(WithField(BareRepo(n, at), "topics", <<T_a>>), "language", "Go")

OwnChoices ==
    {WithField(OwnRepo(n, at), "fork", f) :
        n \in {<<"a", "x">>, <<"a", "y">>}, at \in {At_0110, At_0301}, f \in BOOLEAN}
    \cup {OwnRepo(<<"a", "x">>, At_0110)}

FamOwn ==
    {Input(<<>>, r, ActivityOf(0, 0), Now0) : r \in SeqsUpTo(MaxOwn, OwnChoices)}

FamDates ==
    {Input(<<Star(sa, TopicRepo(<<"o", "s">>, <<T_a>>))>>, <<BareRepo(<<"a", "x">>, ua)>>,
           ActivityOf(0, 0), t) :
        sa \in AllDates, ua \in AllDates, t \in {Now0, Now1}}

Inputs ==
    {FamTopics, FamRatio, FamTopTen, FamLang, FamCommits, FamDesc, FamOwn, FamDates}

(***************************************************************************)
(* The aggregation steps of run_analysis (steps 6 and 7).                  *)
(***************************************************************************)
IdleActivity ==
    /\ events = <<>>
    /\ ev_i = 1
    /\ activity_summary = ActivityOf(0, 0)
    /\ ev_log = <<>>

IdleRequest ==
    /\ req_outcomes = <<>>
    /\ req_attempts = 0
    /\ req_result = ""

\* A document: the text the service returned, or the fallback template
\* filled with the figures it prints.
empty_doc ==
    [kind |-> "", text |-> "", name |-> "", starred |-> 0, own_repos |-> 0,
     commits |-> 0, prs_created |-> 0, prs_reviewed |-> 0, technologies |-> <<>>]

\* None, as generate_profile_content returns it.
no_content == [none |-> TRUE, pt_br |-> empty_doc, en |-> empty_doc]

\* {}: what get_user_info returns when the request fails.
empty_user_info == [name |-> "", nulls |-> {"name"}]

quiet_page == [ok |-> TRUE, data |-> <<>>]

quiet_remote ==
    [username_valid |-> TRUE, user |-> [ok |-> TRUE, data |-> empty_user_info],
     starred |-> <<>>, repos |-> <<>>, events |-> quiet_page,
     client |-> FALSE, generate |-> [ok |-> FALSE, parts |-> <<>>]]

IdlePipeline ==
    /\ remote = quiet_remote
    /\ page = 1
    /\ user_info = empty_user_info
    /\ profile_content = no_content
    /\ files = <<>>

Init ==
    /\ \E family \in Inputs : \E inp \in family :
          /\ starred_repos = inp.starred
          /\ user_repos = inp.repos
          /\ activity = inp.act
          /\ now = inp.now
          /\ all_data = empty_all_data(inp.act)
    /\ trends = empty_trends
    /\ error = ""
    /\ pc = "fetched"
    /\ IdleActivity
    /\ IdleRequest
    /\ IdlePipeline

ExtractComprehensiveData ==
    /\ pc = "fetched"
    /\ all_data' = extract_comprehensive_data(starred_repos, user_repos, activity, now)
    /\ pc' = "extracted"
    /\ UNCHANGED <<now, starred_repos, user_repos, activity, trends, error>>
    /\ UNCHANGED <<activity_vars, request_vars, pipeline_vars>>

IdentifyTrends ==
    /\ pc = "extracted"
    /\ IF identify_trends_raises(all_data)
       THEN /\ error' = "ZeroDivisionError"
            /\ pc' = "raised"
            /\ UNCHANGED trends
       ELSE /\ trends' = identify_trends(all_data)
            /\ pc' = "trends"
            /\ UNCHANGED error
    /\ UNCHANGED <<now, starred_repos, user_repos, activity, all_data>>
    /\ UNCHANGED <<activity_vars, request_vars, pipeline_vars>>

Next == ExtractComprehensiveData \/ IdentifyTrends

Spec == Init /\ [][Next]_vars

(***************************************************************************)
(* What the claims are stated against: the inputs of the run, read         *)
(* directly.                                                               *)
(***************************************************************************)
Extracted == pc \in {"extracted", "trends", "raised"}

\* The starred items whose star is less than recent_days days old.
RecentStarIndices ==
    {i \in 1..Len(starred_repos) :
        strptime(now) - strptime(starred_repos[i].starred_at) < recent_days}

IsFork(repo) == "fork" \notin repo.nulls /\ repo.fork

TopicsOfRepo(repo) == IF "topics" \in repo.nulls THEN <<>> ELSE repo.topics

LanguageOfRepo(repo) == IF "language" \in repo.nulls THEN "" ELSE repo.language

\* How many of the topics of the starred items in `among` are topic tp.
StarTopicCount(among, tp) ==
    Cardinality({ij \in among \X (1..MaxTopicsPerRepo + 1) :
        /\ ij[2] <= Len(TopicsOfRepo(starred_repos[ij[1]].repo))
        /\ TopicsOfRepo(starred_repos[ij[1]].repo)[ij[2]] = tp})

OwnTopicCount(tp) ==
    Cardinality({ij \in (1..Len(user_repos)) \X (1..MaxTopicsPerRepo + 1) :
        /\ ~ IsFork(user_repos[ij[1]])
        /\ ij[2] <= Len(TopicsOfRepo(user_repos[ij[1]]))
        /\ TopicsOfRepo(user_repos[ij[1]])[ij[2]] = tp})

RecentTopicCount(tp) == StarTopicCount(RecentStarIndices, tp)

TotalTopicCount(tp) == StarTopicCount(1..Len(starred_repos), tp) + OwnTopicCount(tp)

InputTopics ==
    UNION {{TopicsOfRepo(starred_repos[i].repo)[j] :
               j \in 1..Len(TopicsOfRepo(starred_repos[i].repo))} :
           i \in 1..Len(starred_repos)}
    \cup UNION {{TopicsOfRepo(user_repos[i])[j] :
                    j \in 1..Len(TopicsOfRepo(user_repos[i]))} :
                i \in 1..Len(user_repos)}

RecentLangCount(lang) ==
    Cardinality({i \in RecentStarIndices :
        LanguageOfRepo(starred_repos[i].repo) = lang})

EmergingTopicSet ==
    {trends.emerging_topics[i].topic : i \in 1..Len(trends.emerging_topics)}

(***************************************************************************)
(* C1: once identify_trends has returned, activity_pattern is one of the   *)
(* four labels and is decided by the recent commit count alone: more than *)
(* 50 highly_active, 21..50 active, 6..20 moderate, at most 5 light.       *)
(***************************************************************************)
C1_ActivityPatternByCommits ==
    pc = "trends" =>
        LET c == activity.commits
            p == trends.activity_pattern
        IN /\ p \in {"highly_active", "active", "moderate", "light"}
           /\ (c > 50) <=> (p = "highly_active")
           /\ (20 < c /\ c <= 50) <=> (p = "active")
           /\ (5 < c /\ c <= 20) <=> (p = "moderate")
           /\ (c <= 5) <=> (p = "light")

\* Exactly 50 commits, among other data, labelled active.
C1_Witness ==
    /\ pc = "trends"
    /\ activity.commits = 50
    /\ activity.prs_created > 0
    /\ starred_repos # <<>>
    /\ trends.activity_pattern = "active"

(***************************************************************************)
(* C2: identify_trends never divides by a zero total_count, and every      *)
(* entry of emerging_topics has recent_count / total_count > 0.30,         *)
(* recent_count <= total_count and total_count >= 1.                       *)
(***************************************************************************)
C2_EmergingRatioWellDefined ==
    /\ error # "ZeroDivisionError"
    /\ \A i \in 1..Len(trends.emerging_topics) :
          LET e == trends.emerging_topics[i]
          IN /\ e.total_count >= 1
             /\ 10 * e.recent_count > 3 * e.total_count
             /\ e.recent_count <= e.total_count

(***************************************************************************)
(* C3: when identify_trends returns, a topic is in emerging_topics if and  *)
(* only if it is one of the 10 most frequent topics of the recent stars    *)
(* (ties by first-seen order) and its recent count is more than 0.30 of    *)
(* its all-time count; emerging_topics has at most 10 entries.             *)
(***************************************************************************)
RecentStarTopics ==
    Concat([i \in 1..Len(starred_repos) |->
               IF i \in RecentStarIndices
               THEN TopicsOfRepo(starred_repos[i].repo) ELSE <<>>])

TenMostFrequentRecent ==
    LET ks == Distinct(RecentStarTopics)
        \* rank of ks[i]: topics with a higher count, or the same count and
        \* seen earlier
        before(i) == {j \in 1..Len(ks) :
                         \/ RecentTopicCount(ks[j]) > RecentTopicCount(ks[i])
                         \/ RecentTopicCount(ks[j]) = RecentTopicCount(ks[i]) /\ j < i}
    IN {ks[i] : i \in {k \in 1..Len(ks) : Cardinality(before(k)) < 10}}

C3_EmergingIffTopTenAndRatio ==
    pc = "trends" =>
        /\ Len(trends.emerging_topics) <= 10
        /\ EmergingTopicSet =
              {tp \in TenMostFrequentRecent :
                  10 * RecentTopicCount(tp) > 3 * TotalTopicCount(tp)}

(***************************************************************************)
(* C4: growing_languages has at most 5 entries, each a language of at      *)
(* least two recent stars, none twice, in descending order of recent       *)
(* count.                                                                  *)
(***************************************************************************)
C4_GrowingLanguagesBounded ==
    pc = "trends" =>
        LET g == trends.growing_languages
        IN /\ Len(g) <= 5
           /\ \A i \in 1..Len(g) : RecentLangCount(g[i]) >= 2
           /\ \A i, j \in 1..Len(g) : i # j => g[i] # g[j]
           /\ \A i, j \in 1..Len(g) :
                 i < j => RecentLangCount(g[i]) >= RecentLangCount(g[j])

\* Six languages have two recent stars or more: five are listed, with
\* different counts among them, and one is cut.
C4_Witness ==
    /\ pc = "trends"
    /\ Len(trends.growing_languages) = 5
    /\ RecentLangCount(trends.growing_languages[1]) > RecentLangCount(trends.growing_languages[5])
    /\ \E i \in 1..NumLangs :
          /\ RecentLangCount(LanguageNames[i]) >= 2
          /\ \A k \in 1..5 : trends.growing_languages[k] # LanguageNames[i]

(***************************************************************************)
(* C5: after extract_comprehensive_data, own_repos holds one entry for     *)
(* every owned repository whose fork flag is false or missing and none for *)
(* a repository whose fork flag is true, and the all-time topic and        *)
(* language tables count the starred and the non-fork owned repositories   *)
(* only.                                                                   *)
(***************************************************************************)
OwnedKeys == {<<user_repos[i].full_name, user_repos[i].updated_at>> : i \in 1..Len(user_repos)}

NonForkInputCount(k) ==
    Cardinality({i \in 1..Len(user_repos) :
        /\ ~ IsFork(user_repos[i])
        /\ <<user_repos[i].full_name, user_repos[i].updated_at>> = k})

OutputCount(k) ==
    Cardinality({i \in 1..Len(all_data.own_repos) :
        <<all_data.own_repos[i].name, all_data.own_repos[i].updated_at>> = k})

NonForkLangCount(lang) ==
    Cardinality({i \in 1..Len(starred_repos) :
        LanguageOfRepo(starred_repos[i].repo) = lang})
    + Cardinality({i \in 1..Len(user_repos) :
        ~ IsFork(user_repos[i]) /\ LanguageOfRepo(user_repos[i]) = lang})

C5_ForksExcluded ==
    Extracted =>
        /\ \A k \in OwnedKeys : OutputCount(k) = NonForkInputCount(k)
        /\ Len(all_data.own_repos) =
              Cardinality({i \in 1..Len(user_repos) : ~ IsFork(user_repos[i])})
        /\ \A tp \in InputTopics :
              Occurrences(all_data.all_topics, tp) = TotalTopicCount(tp)
        /\ \A i \in 1..Len(LanguageNames) :
              Occurrences(all_data.all_languages, LanguageNames[i])
                  = NonForkLangCount(LanguageNames[i])

\* A fork, a repository with no fork flag and one with fork = false, the
\* fork being left out.
C5_Witness ==
    /\ Extracted
    /\ Len(user_repos) = 3
    /\ IsFork(user_repos[1])
    /\ "fork" \in user_repos[2].nulls
    /\ "fork" \notin user_repos[3].nulls /\ ~ user_repos[3].fork
    /\ user_repos[1].full_name # user_repos[2].full_name
    /\ Len(all_data.own_repos) = 2
    /\ Len(all_data.all_topics) = 2

(***************************************************************************)
(* C6: own_repos is in descending order of updated_at, repositories with   *)
(* the same updated_at keep their input order, and sorting own_repos again *)
(* leaves it as it is.                                                     *)
(***************************************************************************)
NamesUpdatedAt(names, dates, d) ==
    LET s == Filter(names, {i \in 1..Len(names) : dates[i] = d})
    IN s

InputNamesAt(d) ==
    LET kept == Filter(user_repos, {i \in 1..Len(user_repos) : ~ IsFork(user_repos[i])})
    IN NamesUpdatedAt([i \in 1..Len(kept) |-> kept[i].full_name],
                      [i \in 1..Len(kept) |-> kept[i].updated_at], d)

OutputNamesAt(d) ==
    NamesUpdatedAt([i \in 1..Len(all_data.own_repos) |-> all_data.own_repos[i].name],
                   [i \in 1..Len(all_data.own_repos) |-> all_data.own_repos[i].updated_at], d)

C6_OwnReposSortedStable ==
    Extracted =>
        LET o == all_data.own_repos
        IN /\ \A i, j \in 1..Len(o) :
                 i < j => ~ str_lt(o[i].updated_at, o[j].updated_at)
           /\ \A d \in AllDates : OutputNamesAt(d) = InputNamesAt(d)
           /\ sort_by_updated_at_desc(o) = o

\* An older repository first in the input, then two newer ones of the same
\* date and different names: the output moves the older one last and keeps
\* the other two in their order.
C6_Witness ==
    /\ Extracted
    /\ Len(user_repos) = 3
    /\ Len(all_data.own_repos) = 3
    /\ user_repos[1].updated_at = At_0110
    /\ user_repos[2].updated_at = At_0301
    /\ user_repos[3].updated_at = At_0301
    /\ user_repos[2].full_name = <<"a", "y">>
    /\ user_repos[3].full_name = <<"a", "x">>
    /\ all_data.own_repos[1].name = <<"a", "y">>
    /\ all_data.own_repos[2].name = <<"a", "x">>
    /\ all_data.own_repos[3].updated_at = At_0110

(***************************************************************************)
(* C7: the scenario of two owned repositories, a/x updated 2024-01-10 and  *)
(* a/y updated 2024-03-01, neither a fork, at now = 2024-03-05 with a      *)
(* 30-day window.                                                          *)
(***************************************************************************)
C7_Scenario ==
    /\ Extracted
    /\ now = <<2024, 3, 5>>
    /\ recent_days = 30
    /\ Len(user_repos) = 2
    /\ user_repos[1].full_name = <<"a", "x">>
    /\ user_repos[1].updated_at = <<2024, 1, 10>>
    /\ "fork" \notin user_repos[1].nulls /\ ~ user_repos[1].fork
    /\ user_repos[2].full_name = <<"a", "y">>
    /\ user_repos[2].updated_at = <<2024, 3, 1>>
    /\ "fork" \notin user_repos[2].nulls /\ ~ user_repos[2].fork

\* As claimed: the order is [a/y, a/x] and both are active.
C7_BothActive ==
    C7_Scenario =>
        /\ Len(all_data.own_repos) = 2
        /\ all_data.own_repos[1].name = <<"a", "y">>
        /\ all_data.own_repos[2].name = <<"a", "x">>
        /\ all_data.own_repos[1].is_active
        /\ all_data.own_repos[2].is_active

\* C7, amended: the order is [a/y, a/x]; a/y is active and a/x, updated 55
\* days before now, is not; is_active is updated_at > now - 30 days for
\* every entry of own_repos.
C7_OnlyRecentlyUpdatedActive ==
    /\ C7_Scenario =>
          /\ Len(all_data.own_repos) = 2
          /\ all_data.own_repos[1].name = <<"a", "y">>
          /\ all_data.own_repos[2].name = <<"a", "x">>
          /\ all_data.own_repos[1].is_active
          /\ ~ all_data.own_repos[2].is_active
    /\ Extracted =>
          \A i \in 1..Len(all_data.own_repos) :
              all_data.own_repos[i].is_active
                  <=> (strptime(now) - strptime(all_data.own_repos[i].updated_at) < 30)

C7_Witness ==
    /\ C7_Scenario
    /\ Len(all_data.own_repos) = 2
    /\ ~ all_data.own_repos[2].is_active

(***************************************************************************)
(* C9: when identify_trends returns, expertise_areas is the set of the     *)
(* categories matched by at least 3 repositories, counting the starred and *)
(* the owned non-fork repositories together.                               *)
(***************************************************************************)
PooledCategoryCounts ==
    Counter(PooledCategories(
        [i \in 1..Len(starred_repos) |-> starred_repos[i].repo],
        Filter(user_repos, {i \in 1..Len(user_repos) : ~ IsFork(user_repos[i])})))

C9_ExpertisePooledOverStarredAndOwned ==
    pc = "trends" =>
        {trends.expertise_areas[i] : i \in 1..Len(trends.expertise_areas)}
            = {PooledCategoryCounts[i].key :
                  i \in {k \in 1..Len(PooledCategoryCounts) : PooledCategoryCounts[k].n >= 3}}

(***************************************************************************)
(* The activity fold, one loop iteration at a time.                        *)
(***************************************************************************)
NotADate == <<>>              \* "not-a-date"
At_0230 == <<2024, 2, 30>>    \* "2024-02-30T00:00:00Z": day out of range
At_1301 == <<2024, 13, 1>>    \* "2024-13-01T00:00:00Z": month out of range

Commit(msg) == [message |-> msg, nulls |-> {}]

CommitNoMessage == [message |-> "", nulls |-> {"message"}]

Payload(commits, action) ==
    [commits |-> commits, action |-> action,
     absent |-> (IF action = "" THEN {"action"} ELSE {}), nones |-> {}]

Event(type, at, repo, payload) ==
    [type |-> type, created_at |-> at, repo |-> repo, payload |-> payload,
     nulls |-> {}]

EventNoPayload(type, at, repo) ==
    [type |-> type, created_at |-> at, repo |-> repo, payload |-> empty_payload,
     nulls |-> {"payload"}]

PushOf(at, repo, n) ==
    Event("PushEvent", at, repo,
          Payload([i \in 1..n |-> IF i = 2 THEN CommitNoMessage ELSE Commit("fix")], ""))

CoreEvents ==
    {PushOf(At_0301, <<"a", "x">>, 2),
     PushOf(At_0301, <<"o", "r">>, 1),
     PushOf(NotADate, <<"a", "x">>, 2),
     PushOf(At_0110, <<"a", "x">>, 1),
     Event("PullRequestEvent", At_0301, <<"o", "r">>, Payload(<<>>, "opened")),
     Event("PullRequestEvent", At_0230, <<"o", "q">>, Payload(<<>>, "opened")),
     Event("IssuesEvent", At_0301, <<"o", "r">>, Payload(<<>>, "opened")),
     Event("IssueCommentEvent", At_1301, <<"o", "r">>, Payload(<<>>, "created"))}

OtherEvents ==
    {PushOf(At_0301, <<"o", "x">>, 1),
     PushOf(At_0204, <<"a", "x">>, 1),
     PushOf(At_0301, <<"a", "x">>, max_recent_commits + 2),
     PushOf(At_0230, <<"o", "q">>, 1),
     EventNoPayload("PushEvent", At_0301, <<"a", "x">>),
     [Event("PushEvent", At_0301, <<"a", "x">>, Payload(<<>>, ""))
         EXCEPT !.payload.nones = {"commits"}],
     Event("PullRequestEvent", At_0301, <<"a", "x">>, Payload(<<>>, "opened")),
     Event("PullRequestEvent", At_0301, <<"o", "x">>, Payload(<<>>, "opened")),
     Event("PullRequestReviewEvent", At_0301, <<"o", "r">>, Payload(<<>>, "created")),
     Event("PullRequestReviewEvent", NotADate, <<"o", "r">>, Payload(<<>>, "created")),
     Event("IssuesEvent", At_0301, <<"o", "r">>, Payload(<<>>, "closed")),
     Event("IssuesEvent", NotADate, <<"o", "r">>, Payload(<<>>, "opened")),
     EventNoPayload("IssuesEvent", At_0301, <<"o", "r">>),
     Event("IssueCommentEvent", At_0301, <<"o", "r">>, Payload(<<>>, "created")),
     Event("WatchEvent", At_0301, <<"o", "r">>, Payload(<<>>, "started")),
     Event("PullRequestEvent", At_0110, <<"o", "r">>, Payload(<<>>, "opened")),
     Event("IssueCommentEvent", At_0110, <<"o", "r">>, Payload(<<>>, "created")),
     EventNoPayload("IssueCommentEvent", At_0301, <<"o", "r">>)}

EventLists ==
    SeqsUpTo(MaxEvents, CoreEvents) \cup SeqsUpTo(2, CoreEvents \cup OtherEvents)

OwnedLists ==
    {<<BareRepo(<<"a", "x">>, At_0301)>>,
     <<>>}

ActivityInit ==
    /\ events \in EventLists
    /\ user_repos \in OwnedLists
    /\ ev_i = 1
    /\ activity_summary = empty_summary
    /\ ev_log = <<>>
    /\ pc = "folding"
    /\ now = Now0
    /\ starred_repos = <<>>
    /\ activity = empty_summary
    /\ all_data = empty_all_data(empty_summary)
    /\ trends = empty_trends
    /\ error = ""
    /\ IdleRequest
    /\ IdlePipeline

\* One iteration of the loop of lines 147-194.
FoldEvent ==
    /\ pc = "folding"
    /\ ev_i <= Len(events)
    /\ LET event == events[ev_i]
       IN IF fold_event_raises(event, now)
          THEN /\ error' = "TypeError"
               /\ pc' = "raised"
               /\ UNCHANGED <<ev_i, activity_summary, ev_log>>
          ELSE /\ activity_summary' =
                      fold_event(activity_summary, event, own_repos_names(user_repos), now)
               /\ ev_log' = IF strptime_raises(event.created_at)
                            THEN Append(ev_log, ev_i) ELSE ev_log
               /\ ev_i' = ev_i + 1
               /\ UNCHANGED <<pc, error>>
    /\ UNCHANGED <<events, now, starred_repos, user_repos, activity, all_data, trends>>
    /\ UNCHANGED <<request_vars, pipeline_vars>>

\* The loop is over: the sets become lists (of unspecified order: they are
\* kept as sets) and the summary is returned.
ReturnSummary ==
    /\ pc = "folding"
    /\ ev_i > Len(events)
    /\ pc' = "folded"
    /\ activity' = activity_summary
    /\ UNCHANGED <<now, starred_repos, user_repos, all_data, trends, error>>
    /\ UNCHANGED <<activity_vars, request_vars, pipeline_vars>>

ActivityNext == FoldEvent \/ ReturnSummary

ActivitySpec == ActivityInit /\ [][ActivityNext]_vars

(***************************************************************************)
(* C8: the fold skips an event whose created_at does not parse, without    *)
(* raising, and goes on: at every point the accumulator is what folding    *)
(* the events seen so far without the unparsable ones gives.               *)
(***************************************************************************)
RECURSIVE FoldAll(_, _, _)
FoldAll(evs, own, t) ==
    IF evs = <<>> THEN empty_summary
    ELSE fold_event(FoldAll(SubSeq(evs, 1, Len(evs) - 1), own, t), evs[Len(evs)], own, t)

Unparsable(i) == strptime_raises(events[i].created_at)

C8_MalformedTimestampSkipped ==
    pc \in {"folding", "folded", "raised"} =>
        /\ error # "ValueError"
        /\ \A i \in 1..(ev_i - 1) : Unparsable(i) => \E k \in 1..Len(ev_log) : ev_log[k] = i
        /\ activity_summary =
              FoldAll(Filter(events, {i \in 1..(ev_i - 1) : ~ Unparsable(i)}),
                      own_repos_names(user_repos), now)
        /\ pc = "folded" =>
              /\ ev_i = Len(events) + 1
              /\ activity =
                    FoldAll(Filter(events, {i \in 1..Len(events) : ~ Unparsable(i)}),
                            own_repos_names(user_repos), now)

\* A push to an owned repository at "not-a-date" between two counted
\* events: the fold went through all three and counted the other two.
C8_Witness ==
    /\ pc = "folded"
    /\ Len(events) = 3
    /\ events[2].created_at = NotADate
    /\ events[2].type = "PushEvent"
    /\ events[2].repo \in own_repos_names(user_repos)
    /\ ~ Unparsable(1) /\ ~ Unparsable(3)
    /\ events[1].type = "PushEvent"
    /\ events[3].type = "PullRequestEvent"
    /\ activity.commits = 2
    /\ activity.prs_created = 1
    /\ Len(activity.recent_commits_detail) = 2

(***************************************************************************)
(* _make_request under its tenacity.retry decorator.  The environment      *)
(* decides what each call of session.get / raise_for_status does.          *)
(***************************************************************************)
stop_after_attempt == 3

\* What one attempt meets: a 2xx answer, a 403, another 4xx/5xx status, a
\* requests ConnectionError, a requests Timeout.
Outcomes == {"ok", "http_403", "http_500", "connection_error", "timeout"}

\* The exception classes of requests.exceptions that derive from
\* RequestException, as the function can raise them out of its body.
RequestExceptions == {"HTTPError", "ConnectionError", "Timeout"}

\* The body of _make_request on one attempt: "" when it returns
\* response.json(), else the class of the exception that leaves the body.
\* HTTPError with status 403 and every other RequestException are replaced
\* by a plain Exception; any other HTTPError is re-raised as it is.
make_request_body(outcome) ==
    CASE outcome = "ok" -> ""
      [] outcome = "http_403" -> "Exception"
      [] outcome = "http_500" -> "HTTPError"
      [] OTHER -> "Exception"

\* str() of the exception that leaves the body: the text the caller prints.
exception_message(outcome) ==
    CASE outcome = "ok" -> ""
      [] outcome = "http_403" -> "Rate limit exceeded. Please check your token or wait."
      [] outcome = "http_500" -> "500 Server Error"
      [] outcome = "connection_error" -> "Network error: connection refused"
      [] OTHER -> "Network error: read timed out"

\* A decorator that retries on every exception.
RetryAnyException(raised) == raised # ""

\* retry=retry_if_exception_type(RequestException)
retry_if_exception_type(raised) == raised \in RequestExceptions

RequestInit ==
    /\ req_outcomes \in [1..stop_after_attempt -> Outcomes]
    /\ req_attempts = 0
    /\ req_result = ""
    /\ pc = "requesting"
    /\ now = Now0
    /\ starred_repos = <<>>
    /\ user_repos = <<>>
    /\ activity = empty_summary
    /\ all_data = empty_all_data(empty_summary)
    /\ trends = empty_trends
    /\ error = ""
    /\ IdleActivity
    /\ IdlePipeline

\* One attempt: the body runs once; tenacity then returns the value, calls
\* again, or (reraise=True) lets the last exception out.
MakeRequestAttempt ==
    /\ pc = "requesting"
    /\ req_attempts < stop_after_attempt
    /\ LET attempt == req_attempts + 1
           raised == make_request_body(req_outcomes[attempt])
       IN /\ req_attempts' = attempt
          /\ IF raised = ""
             THEN /\ pc' = "returned"
                  /\ req_result' = "json"
                  /\ error' = error
             ELSE IF retry_if_exception_type(raised) /\ attempt < stop_after_attempt
             THEN /\ pc' = "requesting"
                  /\ UNCHANGED <<req_result, error>>
             ELSE /\ pc' = "raised"
                  /\ error' = exception_message(req_outcomes[attempt])
                  /\ req_result' = req_result
    /\ UNCHANGED <<req_outcomes, now, starred_repos, user_repos, activity, all_data, trends>>
    /\ UNCHANGED <<activity_vars, pipeline_vars>>

RequestNext == MakeRequestAttempt

RequestSpec == RequestInit /\ [][RequestNext]_vars

(***************************************************************************)
(* C10: a connection error or a timeout is retried: the request is only    *)
(* given up, with the failure surfaced, after stop_after_attempt attempts, *)
(* and never more than that many attempts are made.                        *)
(***************************************************************************)
TransientFailures == {"connection_error", "timeout"}

C10_TransientFailureRetried ==
    /\ req_attempts <= stop_after_attempt
    /\ (pc = "raised" /\ req_outcomes # <<>> /\ req_attempts >= 1
          /\ req_outcomes[req_attempts] \in TransientFailures)
       => req_attempts = stop_after_attempt

(***************************************************************************)
(* run_analysis: the whole pipeline, one action per step; a paginated      *)
(* fetch takes one action per page request.  A request here is a whole     *)
(* call of _make_request: it returns the decoded answer or raises.         *)
(***************************************************************************)
MaxPages == 2

github_username == "fabioluciano"

PageNames == <<"p1", "p2", "p3", "p4">>

StarOnPage(i) == Star(At_0301, DescRepo(<<"o", PageNames[i]>>, D_docker))

RepoOnPage(i) == BareRepo(<<"a", PageNames[i]>>, At_0301)

failed_request == [ok |-> FALSE, data |-> <<>>]

\* What the platform answers to the requests of one paginated fetch: each
\* page is served (one item), comes back empty, or its request fails; past
\* the last page the platform serves an empty page.
PagedAnswers(items) ==
    UNION {{[i \in 1..n |-> CASE kinds[i] = "served" -> [ok |-> TRUE, data |-> <<items[i]>>]
                              [] kinds[i] = "empty" -> quiet_page
                              [] OTHER -> failed_request] :
               kinds \in [1..n -> {"served", "empty", "failed"}]} : n \in 0..MaxPages}

StarItems == [i \in 1..Len(PageNames) |-> StarOnPage(i)]

RepoItems == [i \in 1..Len(PageNames) |-> RepoOnPage(i)]

EventAnswers ==
    {failed_request,
     quiet_page,
     [ok |-> TRUE, data |-> <<PushOf(At_0301, <<"a", "p1">>, 2),
                              Event("PullRequestEvent", At_0301, <<"o", "r">>,
                                    Payload(<<>>, "opened"))>>],
     [ok |-> TRUE, data |-> <<[Event("PushEvent", At_0301, <<"a", "p1">>, Payload(<<>>, ""))
                                  EXCEPT !.payload.nones = {"commits"}]>>]}

UserAnswers ==
    {[ok |-> FALSE, data |-> empty_user_info],
     [ok |-> TRUE, data |-> [name |-> "Ann", nulls |-> {}]]}

\* The text service: no credential; a call that raises; an answer with the
\* language separator; an answer without it.
TextServices ==
    {[client |-> FALSE, generate |-> [ok |-> FALSE, parts |-> <<>>]],
     [client |-> TRUE, generate |-> [ok |-> FALSE, parts |-> <<>>]],
     [client |-> TRUE, generate |-> [ok |-> TRUE, parts |-> <<"texto", "text">>]],
     [client |-> TRUE, generate |-> [ok |-> TRUE, parts |-> <<"texto">>]]}

\* Every answer to every fetch, with a text service that answers.
RemotesOfFetches ==
    {[username_valid |-> TRUE, user |-> u, starred |-> s, repos |-> r, events |-> e,
      client |-> TRUE, generate |-> [ok |-> TRUE, parts |-> <<"texto", "text">>]] :
        u \in UserAnswers, s \in PagedAnswers(StarItems), r \in PagedAnswers(RepoItems),
        e \in EventAnswers}

\* Every text service, with at most one page of stars and of repositories.
RemotesOfTextServices ==
    {[username_valid |-> TRUE, user |-> u, starred |-> s, repos |-> r, events |-> e,
      client |-> g.client, generate |-> g.generate] :
        u \in UserAnswers,
        s \in {<<>>, <<[ok |-> TRUE, data |-> <<StarOnPage(1)>>]>>},
        r \in {<<>>, <<[ok |-> TRUE, data |-> <<RepoOnPage(1)>>]>>},
        e \in EventAnswers, g \in TextServices}

Remotes ==
    {RemotesOfFetches, RemotesOfTextServices,
     {[quiet_remote EXCEPT !.username_valid = FALSE]}}

\* A request that asks for the page after the one meant.
RequestsNextPage(answers, p) ==
    IF p + 1 <= Len(answers) THEN answers[p + 1] ELSE quiet_page

\* The answer to the request for page p of a paginated fetch.
page_answer(answers, p) == IF p <= Len(answers) THEN answers[p] ELSE quiet_page

\* A fetch that answers nothing new for a failed request.
DropsPagesOnFailure(repos, answer) ==
    IF answer.ok THEN repos \o answer.data ELSE <<>>

\* The list a paginated fetch holds after one request: extended by the
\* page, or as it was when the request raised (except: return repos).
after_page(repos, answer) ==
    IF answer.ok THEN repos \o answer.data ELSE repos

\* An order in which the activity is fetched before the owned repositories.
ActivityBeforeOwnedRepos(step) ==
    CASE step = "start" -> "get_user_info"
      [] step = "get_user_info" -> "get_starred_repos"
      [] step = "get_starred_repos" -> "get_recent_activity"
      [] step = "get_recent_activity" -> "get_user_repos"
      [] step = "get_user_repos" -> "analyze"
      [] step = "analyze" -> "fetched"
      [] step = "trends" -> "generated"
      [] OTHER -> "done"

\* The order of the statements of run_analysis: the position after a step.
step_after(step) ==
    CASE step = "start" -> "get_user_info"
      [] step = "get_user_info" -> "get_starred_repos"
      [] step = "get_starred_repos" -> "get_user_repos"
      [] step = "get_user_repos" -> "get_recent_activity"
      [] step = "get_recent_activity" -> "analyze"
      [] step = "analyze" -> "fetched"
      [] step = "trends" -> "generated"
      [] OTHER -> "done"

\* analyze_recent_activity as a whole, when no iteration raises.
RECURSIVE analyze_recent_activity(_, _, _)
analyze_recent_activity(evs, own, t) ==
    IF evs = <<>> THEN empty_summary
    ELSE fold_event(analyze_recent_activity(SubSeq(evs, 1, Len(evs) - 1), own, t),
                    evs[Len(evs)], own, t)

analyze_recent_activity_raises(evs, t) ==
    \E i \in 1..Len(evs) : fold_event_raises(evs[i], t)

generated_doc(text) == [empty_doc EXCEPT !.kind = "generated", !.text = text]

\* _generate_fallback_readme: the template and the figures it prints.
generate_fallback_readme(data, tr, info) ==
    [kind |-> "fallback", text |-> "",
     name |-> IF "name" \in info.nulls THEN github_username ELSE info.name,
     starred |-> Len(data.starred), own_repos |-> Len(data.own_repos),
     commits |-> data.activity.commits, prs_created |-> data.activity.prs_created,
     prs_reviewed |-> data.activity.prs_reviewed,
     technologies |-> tr.expertise_areas]

generate_profile_content(data, tr, info, service) ==
    IF ~ service.client THEN no_content
    ELSE IF service.generate.ok
    THEN LET parts == service.generate.parts
         IN [none |-> FALSE, pt_br |-> generated_doc(parts[1]),
             en |-> generated_doc(IF Len(parts) > 1 THEN parts[2] ELSE parts[1])]
    ELSE LET fallback == generate_fallback_readme(data, tr, info)
         IN [none |-> FALSE, pt_br |-> fallback, en |-> fallback]

\* A publisher whose default README is the English document.
DefaultReadmeInEnglish(content) ==
    IF content.none THEN <<>>
    ELSE <<[name |-> "README.pt-br.md", content |-> content.pt_br],
           [name |-> "README.en.md", content |-> content.en],
           [name |-> "README.md", content |-> content.en]>>

\* update_readme: the files it writes, in order; none for no content.
update_readme(content) ==
    IF content.none THEN <<>>
    ELSE <<[name |-> "README.pt-br.md", content |-> content.pt_br],
           [name |-> "README.en.md", content |-> content.en],
           [name |-> "README.md", content |-> content.pt_br]>>

PipelineInit ==
    /\ \E family \in Remotes : remote \in family
    /\ pc = "start"
    /\ now = Now0
    /\ page = 1
    /\ user_info = empty_user_info
    /\ starred_repos = <<>>
    /\ user_repos = <<>>
    /\ activity = empty_summary
    /\ all_data = empty_all_data(empty_summary)
    /\ trends = empty_trends
    /\ error = ""
    /\ profile_content = no_content
    /\ files = <<>>
    /\ IdleActivity
    /\ IdleRequest

ValidateUsername ==
    /\ pc = "start"
    /\ pc' = IF remote.username_valid THEN step_after("start") ELSE "invalid_username"
    /\ UNCHANGED <<analysis_vars, activity_vars, request_vars, pipeline_vars>>

GetUserInfo ==
    /\ pc = "get_user_info"
    /\ user_info' = IF remote.user.ok THEN remote.user.data ELSE empty_user_info
    /\ pc' = step_after("get_user_info")
    /\ UNCHANGED <<analysis_vars, activity_vars, request_vars>>
    /\ UNCHANGED <<remote, page, profile_content, files>>

\* One turn of the loop of get_starred_repos: the request of a page, then
\* the except clause (return repos), the break on an empty page, or extend.
GetStarredReposPage ==
    /\ pc = "get_starred_repos"
    /\ LET answer == page_answer(remote.starred, page)
       IN IF ~ answer.ok \/ answer.data = <<>>
          THEN /\ pc' = step_after("get_starred_repos")
               /\ page' = 1
          ELSE /\ page' = page + 1
               /\ UNCHANGED pc
    /\ starred_repos' = after_page(starred_repos, page_answer(remote.starred, page))
    /\ UNCHANGED <<now, user_repos, activity, all_data, trends, error>>
    /\ UNCHANGED <<activity_vars, request_vars>>
    /\ UNCHANGED <<remote, user_info, profile_content, files>>

GetUserReposPage ==
    /\ pc = "get_user_repos"
    /\ LET answer == page_answer(remote.repos, page)
       IN IF ~ answer.ok \/ answer.data = <<>>
          THEN /\ pc' = step_after("get_user_repos")
               /\ page' = 1
          ELSE /\ page' = page + 1
               /\ UNCHANGED pc
    /\ user_repos' = after_page(user_repos, page_answer(remote.repos, page))
    /\ UNCHANGED <<now, starred_repos, activity, all_data, trends, error>>
    /\ UNCHANGED <<activity_vars, request_vars>>
    /\ UNCHANGED <<remote, user_info, profile_content, files>>

GetRecentActivity ==
    /\ pc = "get_recent_activity"
    /\ events' = IF remote.events.ok THEN remote.events.data ELSE <<>>
    /\ pc' = step_after("get_recent_activity")
    /\ UNCHANGED <<analysis_vars, ev_i, activity_summary, ev_log, request_vars, pipeline_vars>>

\* Step 5; an exception of the fold is caught nowhere and ends the run.
AnalyzeRecentActivity ==
    /\ pc = "analyze"
    /\ IF analyze_recent_activity_raises(events, now)
       THEN /\ pc' = "raised"
            /\ error' = "TypeError"
            /\ UNCHANGED activity
       ELSE /\ activity' = analyze_recent_activity(events, own_repos_names(user_repos), now)
            /\ pc' = step_after("analyze")
            /\ UNCHANGED error
    /\ UNCHANGED <<now, starred_repos, user_repos, all_data, trends>>
    /\ UNCHANGED <<activity_vars, request_vars, pipeline_vars>>

GenerateProfileContent ==
    /\ pc = "trends"
    /\ profile_content' = generate_profile_content(all_data, trends, user_info, remote)
    /\ pc' = step_after("trends")
    /\ UNCHANGED <<analysis_vars, activity_vars, request_vars>>
    /\ UNCHANGED <<remote, page, user_info, files>>

UpdateReadme ==
    /\ pc = "generated"
    /\ files' = update_readme(profile_content)
    /\ pc' = IF profile_content.none THEN "not_updated" ELSE step_after("generated")
    /\ UNCHANGED <<analysis_vars, activity_vars, request_vars>>
    /\ UNCHANGED <<remote, page, user_info, profile_content>>

PipelineNext ==
    \/ ValidateUsername
    \/ GetUserInfo
    \/ GetStarredReposPage
    \/ GetUserReposPage
    \/ GetRecentActivity
    \/ AnalyzeRecentActivity
    \/ ExtractComprehensiveData
    \/ IdentifyTrends
    \/ GenerateProfileContent
    \/ UpdateReadme

PipelineSpec == PipelineInit /\ [][PipelineNext]_vars

(***************************************************************************)
(* C11: a gateway fetch that fails does not end the run.  The fetch        *)
(* returns what it had before the failing request: the pages already       *)
(* fetched for a paginated fetch (nothing when the first request fails),   *)
(* {} for the user info, [] for the activity; the only exceptions that end *)
(* a run come from the aggregation, never from a fetch.                    *)
(***************************************************************************)
PipelineOrder ==
    <<"start", "get_user_info", "get_starred_repos", "get_user_repos",
      "get_recent_activity", "analyze", "fetched", "extracted", "trends",
      "generated", "done">>

\* The run is past the step at position `step`.
Past(step) ==
    \/ \E i, j \in 1..Len(PipelineOrder) :
          PipelineOrder[i] = step /\ PipelineOrder[j] = pc /\ i < j
    \/ pc \in {"raised", "not_updated"}

\* The first page whose request fails or that is empty.
StopPage(answers) ==
    IF \E k \in 1..Len(answers) : ~ answers[k].ok \/ answers[k].data = <<>>
    THEN CHOOSE k \in 1..Len(answers) :
            /\ ~ answers[k].ok \/ answers[k].data = <<>>
            /\ \A j \in 1..(k - 1) : answers[j].ok /\ answers[j].data # <<>>
    ELSE Len(answers) + 1

PagesBeforeStop(answers) ==
    Concat([k \in 1..(StopPage(answers) - 1) |-> answers[k].data])

SomeRequestFails(answers) ==
    StopPage(answers) <= Len(answers) /\ ~ answers[StopPage(answers)].ok

C11_FetchFailureEmptiesResult ==
    /\ (Past("get_starred_repos") /\ SomeRequestFails(remote.starred)) => starred_repos = <<>>
    /\ (Past("get_user_repos") /\ SomeRequestFails(remote.repos)) => user_repos = <<>>

C11_FetchFailureKeepsEarlierPages ==
    /\ pc = "raised" => error \in {"TypeError", "ZeroDivisionError"}
    /\ Past("get_user_info") =>
          user_info = IF remote.user.ok THEN remote.user.data ELSE empty_user_info
    /\ Past("get_starred_repos") => starred_repos = PagesBeforeStop(remote.starred)
    /\ Past("get_user_repos") => user_repos = PagesBeforeStop(remote.repos)
    /\ Past("get_recent_activity") =>
          events = IF remote.events.ok THEN remote.events.data ELSE <<>>

\* Every fetch failed, the starred one on its second page; the run went
\* through all its steps with the first page of stars.
C11_Witness ==
    /\ pc = "done"
    /\ ~ remote.user.ok /\ ~ remote.events.ok
    /\ Len(remote.starred) = 2 /\ remote.starred[1].ok /\ ~ remote.starred[2].ok
    /\ Len(remote.repos) >= 1 /\ ~ remote.repos[1].ok
    /\ starred_repos = <<StarOnPage(1)>>
    /\ user_repos = <<>>
    /\ Len(all_data.starred) = 1
    /\ Len(files) = 3

(***************************************************************************)
(* C12: an attempt answered with HTTP 403 is the last attempt of its       *)
(* request: the failure goes to the caller at once, as the rate-limit      *)
(* exception, whose text is not that of a network error.                   *)
(***************************************************************************)
NetworkErrorMessages ==
    {exception_message("connection_error"), exception_message("timeout")}

C12_RateLimitNotRetried ==
    \A k \in 1..req_attempts :
        req_outcomes[k] = "http_403" =>
            /\ k = req_attempts
            /\ pc = "raised"
            /\ error = "Rate limit exceeded. Please check your token or wait."
            /\ error \notin NetworkErrorMessages

\* A 403 on the first attempt, and on the second attempt after a 500.
C12_Witness ==
    /\ pc = "raised"
    /\ \/ req_attempts = 1 /\ req_outcomes[1] = "http_403"
       \/ req_attempts = 2 /\ req_outcomes[1] = "http_500" /\ req_outcomes[2] = "http_403"
    /\ error \notin NetworkErrorMessages

(***************************************************************************)
(* C13: when the text service has no credential or its call fails, the     *)
(* generation step yields the fallback document for both locales, and      *)
(* every run that reaches the generation step writes the README files.     *)
(***************************************************************************)
C13_FallbackAlwaysPublished ==
    pc \in {"generated", "done", "not_updated"} =>
        /\ (~ remote.client \/ ~ remote.generate.ok) =>
              /\ ~ profile_content.none
              /\ profile_content.pt_br.kind = "fallback"
              /\ profile_content.en = profile_content.pt_br
        /\ pc # "not_updated"
        /\ pc = "done" => Len(files) = 3

(***************************************************************************)
(* C14: a run takes its steps one at a time in the order of run_analysis:  *)
(* user info, starred repos, owned repos, activity, aggregation (activity  *)
(* analysis, then extraction), trends, text generation, publication.  A    *)
(* step's result changes only while the run is at that step, and files     *)
(* are written only by the step that follows text generation.              *)
(***************************************************************************)
StepMoves ==
    {<<PipelineOrder[i], PipelineOrder[i + 1]>> : i \in 1..(Len(PipelineOrder) - 1)}
    \cup {<<"start", "invalid_username">>, <<"analyze", "raised">>,
          <<"extracted", "raised">>, <<"generated", "not_updated">>}

C14_StepsInOrder ==
    [][/\ pc' # pc => <<pc, pc'>> \in StepMoves
       /\ starred_repos' # starred_repos => pc = "get_starred_repos"
       /\ user_repos' # user_repos => pc = "get_user_repos"
       /\ events' # events => pc = "get_recent_activity"
       /\ activity' # activity => pc = "analyze"
       /\ all_data' # all_data => pc = "fetched"
       /\ trends' # trends => pc = "extracted"
       /\ profile_content' # profile_content => pc = "trends"
       /\ files' # files => pc = "generated" /\ pc' = "done"]_vars

\* A run that went through every step with something from every fetch.
C14_Witness ==
    /\ pc = "done"
    /\ Len(starred_repos) = 2 /\ Len(user_repos) = 2 /\ Len(events) = 2
    /\ activity.commits = 2
    /\ Len(all_data.own_repos) = 2
    /\ trends.activity_pattern = "light"
    /\ profile_content.pt_br.kind = "generated"
    /\ Len(files) = 3

(***************************************************************************)
(* C15: with recent_days = 30 and very_recent_days = 90 the two flags of   *)
(* a starred repository are nested: is_recent says the star is less than   *)
(* 30 days old, is_very_recent that it is less than 90 days old, so        *)
(* is_recent implies is_very_recent.                                       *)
(***************************************************************************)
StarAge(i) == strptime(now) - strptime(starred_repos[i].starred_at)

C15_FlagsDisjoint ==
    Extracted =>
        \A i \in 1..Len(all_data.starred) :
            ~ (all_data.starred[i].is_recent /\ all_data.starred[i].is_very_recent)

C15_RecentImpliesVeryRecent ==
    Extracted =>
        /\ Len(all_data.starred) = Len(starred_repos)
        /\ \A i \in 1..Len(all_data.starred) :
              /\ all_data.starred[i].is_recent <=> StarAge(i) < 30
              /\ all_data.starred[i].is_very_recent <=> StarAge(i) < 90
              /\ all_data.starred[i].is_recent => all_data.starred[i].is_very_recent

\* A star of 4 days with both flags and one of 55 days that is very
\* recent only, in one run.
C15_Witness ==
    /\ Extracted
    /\ \E i, j \in 1..Len(all_data.starred) :
          /\ StarAge(i) = 4
          /\ all_data.starred[i].is_recent /\ all_data.starred[i].is_very_recent
          /\ StarAge(j) = 55
          /\ ~ all_data.starred[j].is_recent /\ all_data.starred[j].is_very_recent

(***************************************************************************)
(* C16: the recent-commit detail list never holds more than                *)
(* max_recent_commits entries, and every entry comes from a push event on  *)
(* a repository the user owns.                                             *)
(***************************************************************************)
C16_DetailListBounded ==
    /\ Len(activity_summary.recent_commits_detail) <= max_recent_commits
    /\ \A k \in 1..Len(activity_summary.recent_commits_detail) :
          /\ activity_summary.recent_commits_detail[k].repo \in own_repos_names(user_repos)
          /\ \E i \in 1..(ev_i - 1) :
                /\ events[i].type = "PushEvent"
                /\ events[i].repo = activity_summary.recent_commits_detail[k].repo

(***************************************************************************)
(* C17: the fold never raises on an event whose optional fields (payload,  *)
(* the payload's commit list, a commit's message) are missing or null.     *)
(***************************************************************************)
C17_NullOptionalFieldsNeverRaise ==
    /\ pc # "raised"
    /\ error = ""

(***************************************************************************)
(* C18: an event older than now - 30 days changes nothing, whatever its    *)
(* type; an event created at or after now - 30 days is processed by its    *)
(* type.  The accumulator is the result of processing, in order, exactly   *)
(* the events seen so far that are in the window.                          *)
(***************************************************************************)
InWindow(i) ==
    /\ ~ Unparsable(i)
    /\ strptime(now) - strptime(events[i].created_at) <= 30

RECURSIVE ApplyAll(_, _)
ApplyAll(evs, own) ==
    IF evs = <<>> THEN empty_summary
    ELSE apply_event(ApplyAll(SubSeq(evs, 1, Len(evs) - 1), own), evs[Len(evs)], own)

C18_OldEventsSkipped ==
    pc \in {"folding", "folded", "raised"} =>
        activity_summary =
            ApplyAll(Filter(events, {i \in 1..(ev_i - 1) : InWindow(i)}),
                     own_repos_names(user_repos))

\* An old pull-request event changes nothing; the push created exactly 30
\* days before now is counted.
C18_Witness ==
    /\ pc = "folded"
    /\ Len(events) = 2
    /\ events[1].type = "PullRequestEvent" /\ events[1].created_at = At_0110
    /\ events[2].type = "PushEvent" /\ events[2].created_at = At_0204
    /\ strptime(now) - strptime(At_0204) = 30
    /\ activity.prs_created = 0 /\ activity.collaboration_repos = {}
    /\ activity.commits = 1

(***************************************************************************)
(* C19: the commit counter is the sum of the lengths of the commit lists   *)
(* of the in-window push events seen so far, on whatever repository, and   *)
(* repos_worked_on is the set of their repository names; no event of       *)
(* another type changes either.                                            *)
(***************************************************************************)
InWindowPushes == {i \in 1..(ev_i - 1) : InWindow(i) /\ events[i].type = "PushEvent"}

CommitListLength(i) ==
    IF "payload" \in events[i].nulls \/ "commits" \in events[i].payload.absent
    THEN 0
    ELSE Len(events[i].payload.commits)

RECURSIVE SumOfLengths(_)
SumOfLengths(indices) ==
    IF indices = {} THEN 0
    ELSE LET i == CHOOSE x \in indices : TRUE
         IN CommitListLength(i) + SumOfLengths(indices \ {i})

C19_CommitsSumOverPushes ==
    pc \in {"folding", "folded", "raised"} =>
        /\ activity_summary.commits = SumOfLengths(InWindowPushes)
        /\ activity_summary.repos_worked_on = {events[i].repo : i \in InWindowPushes}

\* Pushes on an owned and on an external repository and a pull request.
C19_Witness ==
    /\ pc = "folded"
    /\ Len(events) = 3
    /\ InWindowPushes = {1, 2}
    /\ events[1].repo = <<"a", "x">> /\ events[2].repo = <<"o", "r">>
    /\ events[3].type = "PullRequestEvent" /\ InWindow(3)
    /\ <<"a", "x">> \in own_repos_names(user_repos)
    /\ activity.commits = 3
    /\ activity.repos_worked_on = {<<"a", "x">>, <<"o", "r">>}

(***************************************************************************)
(* C20: repos_contributed and collaboration_repos hold no repository the   *)
(* user owns and none whose bare name is the bare name of an owned         *)
(* repository; a repository that is neither enters repos_contributed with  *)
(* an in-window push event on it and collaboration_repos with an           *)
(* in-window pull-request event on it.                                     *)
(***************************************************************************)
BareName(full_name) == full_name[Len(full_name)]

OwnedOrSameName(full_name) ==
    \E i \in 1..Len(user_repos) :
        \/ user_repos[i].full_name = full_name
        \/ BareName(user_repos[i].full_name) = BareName(full_name)

InWindowOfType(type) == {i \in 1..(ev_i - 1) : InWindow(i) /\ events[i].type = type}

C20_ExternalReposOnly ==
    pc \in {"folding", "folded", "raised"} =>
        /\ \A r \in activity_summary.repos_contributed \cup activity_summary.collaboration_repos :
              ~ OwnedOrSameName(r)
        /\ activity_summary.repos_contributed =
              {events[i].repo : i \in {j \in InWindowOfType("PushEvent") :
                                          ~ OwnedOrSameName(events[j].repo)}}
        /\ activity_summary.collaboration_repos =
              {events[i].repo : i \in {j \in InWindowOfType("PullRequestEvent") :
                                          ~ OwnedOrSameName(events[j].repo)}}

\* With a/x owned: a push on o/x (same bare name) is left out, a push or
\* a pull request on o/r is recorded.
C20_Witness ==
    /\ pc = "folded"
    /\ own_repos_names(user_repos) = {<<"a", "x">>}
    /\ Len(events) = 2
    /\ events[1].repo = <<"o", "x">> /\ events[2].repo = <<"o", "r">>
    /\ events[1].type = events[2].type
    /\ InWindow(1) /\ InWindow(2)
    /\ \/ events[1].type = "PushEvent"
          /\ activity.repos_contributed = {<<"o", "r">>}
          /\ activity.repos_worked_on = {<<"o", "x">>, <<"o", "r">>}
       \/ events[1].type = "PullRequestEvent"
          /\ activity.collaboration_repos = {<<"o", "r">>}
          /\ activity.prs_created = 2

(***************************************************************************)
(* C21: the iteration of the fold on an in-window pull-request-review      *)
(* event adds 1 to prs_reviewed and leaves every other counter, the three  *)
(* repository sets and the commit-detail list as they were.                *)
(***************************************************************************)
AtInWindowReview ==
    /\ pc = "folding"
    /\ ev_i <= Len(events)
    /\ InWindow(ev_i)
    /\ events[ev_i].type = "PullRequestReviewEvent"

C21_ReviewCountsReviewOnly ==
    [][AtInWindowReview =>
          /\ ev_i' = ev_i + 1
          /\ activity_summary'.prs_reviewed = activity_summary.prs_reviewed + 1
          /\ activity_summary'.commits = activity_summary.commits
          /\ activity_summary'.prs_created = activity_summary.prs_created
          /\ activity_summary'.issues_opened = activity_summary.issues_opened
          /\ activity_summary'.issues_commented = activity_summary.issues_commented
          /\ activity_summary'.repos_worked_on = activity_summary.repos_worked_on
          /\ activity_summary'.repos_contributed = activity_summary.repos_contributed
          /\ activity_summary'.collaboration_repos = activity_summary.collaboration_repos
          /\ activity_summary'.recent_commits_detail = activity_summary.recent_commits_detail]_vars

\* A review after a push of two commits on an owned repository.
C21_Witness ==
    /\ pc = "folded"
    /\ Len(events) = 2
    /\ events[1].type = "PushEvent" /\ InWindow(1)
    /\ events[2].type = "PullRequestReviewEvent" /\ InWindow(2)
    /\ activity.prs_reviewed = 1
    /\ activity.prs_created = 0
    /\ activity.commits = 2
    /\ Len(activity.recent_commits_detail) = 2
    /\ activity.collaboration_repos = {} /\ activity.repos_contributed = {}

(***************************************************************************)
(* C22: issues_opened is the number of in-window issue events seen so far  *)
(* whose action is "opened" (an issue event with another action, or with   *)
(* none, counts for nothing); issues_commented is the number of in-window  *)
(* issue-comment events, whatever their payload.                           *)
(***************************************************************************)
HasActionOpened(i) ==
    /\ "payload" \notin events[i].nulls
    /\ "action" \notin events[i].payload.absent
    /\ events[i].payload.action = "opened"

C22_IssueCounters ==
    pc \in {"folding", "folded", "raised"} =>
        /\ activity_summary.issues_opened =
              Cardinality({i \in InWindowOfType("IssuesEvent") : HasActionOpened(i)})
        /\ activity_summary.issues_commented =
              Cardinality(InWindowOfType("IssueCommentEvent"))

\* An issue opened and an issue closed; or an issue without payload and a
\* comment without payload.
C22_Witness ==
    /\ pc = "folded"
    /\ Len(events) = 2 /\ InWindow(1) /\ InWindow(2)
    /\ events[1].type = "IssuesEvent"
    /\ \/ /\ events[2].type = "IssuesEvent"
          /\ HasActionOpened(1) /\ ~ HasActionOpened(2)
          /\ "payload" \notin events[2].nulls /\ events[2].payload.action = "closed"
          /\ activity.issues_opened = 1 /\ activity.issues_commented = 0
       \/ /\ events[2].type = "IssueCommentEvent"
          /\ "payload" \in events[1].nulls /\ "payload" \in events[2].nulls
          /\ activity.issues_opened = 0 /\ activity.issues_commented = 1

(***************************************************************************)
(* C23: every starred input has its entry in the starred output, at the    *)
(* same position and only there; the entry is recent exactly when the      *)
(* star is less than 30 days old (a star of exactly 30 days is not); the   *)
(* recent-stars bucket is the starred output with the entries that are     *)
(* not recent taken out, in the same order.                                *)
(***************************************************************************)
RECURSIVE RecentOnly(_)
RecentOnly(infos) ==
    IF infos = <<>> THEN <<>>
    ELSE (IF Head(infos).is_recent THEN <<Head(infos)>> ELSE <<>>) \o RecentOnly(Tail(infos))

C23_RecentBucketIffRecent ==
    Extracted =>
        /\ Len(all_data.starred) = Len(starred_repos)
        /\ \A i \in 1..Len(starred_repos) :
              /\ all_data.starred[i].name = starred_repos[i].repo.full_name
              /\ all_data.starred[i].starred_at = starred_repos[i].starred_at
              /\ all_data.starred[i].is_recent <=> StarAge(i) < 30
        /\ all_data.recent_stars = RecentOnly(all_data.starred)
        /\ \A k \in 1..Len(all_data.recent_stars) : all_data.recent_stars[k].is_recent

\* Three stars, the second one old: the bucket holds the first and the
\* third, in that order.  Or one star of exactly 30 days: an empty bucket.
C23_Witness ==
    /\ Extracted
    /\ \/ /\ Len(all_data.starred) = 3
          /\ Len(all_data.recent_stars) = 2
          /\ ~ all_data.starred[2].is_recent
          /\ all_data.starred[1] # all_data.starred[3]
          /\ all_data.recent_stars = <<all_data.starred[1], all_data.starred[3]>>
       \/ /\ Len(all_data.starred) = 1
          /\ StarAge(1) = 30
          /\ all_data.recent_stars = <<>>


(***************************************************************************)
(* C24: a paginated fetch (get_starred_repos, get_user_repos) asks for the *)
(* pages 1, 2, 3, ... in order, one more after every page that comes back  *)
(* with items, and leaves its loop at the first page that is empty or      *)
(* whose request fails, and only there.  All along it holds the            *)
(* concatenation, in page order, of the pages it received; that list is    *)
(* its result.  The page number never passes the first empty or failed    *)
(* page and grows with every turn that stays in the loop, so a fetch whose *)
(* platform answers an empty page or a failure at some page ends there.    *)
(***************************************************************************)
ServedWithItems(answers, p) ==
    p <= Len(answers) /\ answers[p].ok /\ answers[p].data # <<>>

PagesUpTo(answers, p) == Concat([k \in 1..p |-> answers[k].data])

FetchHoldsPagesInOrder(step, answers, repos) ==
    /\ pc = step =>
          /\ page \in 1..StopPage(answers)
          /\ \A k \in 1..(page - 1) : ServedWithItems(answers, k)
          /\ repos = PagesUpTo(answers, page - 1)
    /\ Past(step) =>
          /\ ~ ServedWithItems(answers, StopPage(answers))
          /\ repos = PagesUpTo(answers, StopPage(answers) - 1)

FetchTurn(step, answers, repos_before, repos_after) ==
    pc = step =>
        IF ServedWithItems(answers, page)
        THEN /\ pc' = step
             /\ page' = page + 1
             /\ repos_after = repos_before \o answers[page].data
        ELSE /\ pc' # step
             /\ repos_after = repos_before

C24_PagesInOrderUntilStop ==
    /\ [](/\ FetchHoldsPagesInOrder("get_starred_repos", remote.starred, starred_repos)
          /\ FetchHoldsPagesInOrder("get_user_repos", remote.repos, user_repos))
    /\ [][/\ FetchTurn("get_starred_repos", remote.starred, starred_repos, starred_repos')
          /\ FetchTurn("get_user_repos", remote.repos, user_repos, user_repos')]_vars

\* The starred fetch stopped at an empty first page though the second page
\* had an item; the fetch of the owned repositories received two pages and
\* stopped at the empty third one.
C24_Witness ==
    /\ Past("get_user_repos")
    /\ Len(remote.starred) = 2
    /\ remote.starred[1] = quiet_page
    /\ remote.starred[2] = [ok |-> TRUE, data |-> <<StarOnPage(2)>>]
    /\ starred_repos = <<>>
    /\ Len(remote.repos) = 2
    /\ ServedWithItems(remote.repos, 1) /\ ServedWithItems(remote.repos, 2)
    /\ user_repos = <<RepoOnPage(1), RepoOnPage(2)>>
    /\ RepoOnPage(1) # RepoOnPage(2)


(***************************************************************************)
(* C25: update_readme given content writes three files and no other, in    *)
(* this order: README.pt-br.md with the Portuguese document, README.en.md  *)
(* with the English document, README.md with the Portuguese document       *)
(* again, and returns true (the run ends as done); given no content it     *)
(* writes nothing and returns false (the run ends as not updated).  No     *)
(* file is written before that step.                                       *)
(***************************************************************************)
FileNames == [k \in 1..Len(files) |-> files[k].name]

C25_ThreeFilesOrNone ==
    /\ pc = "done" =>
          /\ ~ profile_content.none
          /\ FileNames = <<"README.pt-br.md", "README.en.md", "README.md">>
          /\ files[1].content = profile_content.pt_br
          /\ files[2].content = profile_content.en
          /\ files[3].content = files[1].content
    /\ pc = "not_updated" => profile_content.none /\ files = <<>>
    /\ pc \notin {"done", "not_updated"} => files = <<>>

\* Two different documents were generated and published, or there was no
\* text service and nothing was published.
C25_Witness ==
    \/ /\ pc = "done"
       /\ Len(files) = 3
       /\ files[1].content.text = "texto"
       /\ files[2].content.text = "text"
       /\ files[3].content.text = "texto"
    \/ /\ pc = "not_updated"
       /\ ~ remote.client
       /\ files = <<>>

====
